---- MODULE Spec2Model ----
(***************************************************************************)
(* clipmate: clipboard history manager (src/src/manager.rs, main.rs).      *)
(*                                                                         *)
(* The model holds one ClipboardManager (its ClipboardHistory and its      *)
(* xclip_available flag), the history file and the image blob files of the *)
(* working directory.  Strings are TLA+ strings, a byte vector is held as  *)
(* its length and the value that fills it, and the contents of the history *)
(* file is the sequence of JSON tokens that serde_json writes.             *)
(***************************************************************************)
EXTENDS Integers, Sequences, FiniteSets, TLC

VARIABLES history, xclip_available, status, file, blobs, last, prev

vars == <<history, xclip_available, status, file, blobs, last, prev>>

(***************************************************************************)
(* Bounds of the model.                                                    *)
(***************************************************************************)
\* longest history that is explored
MaxItems == 3

(***************************************************************************)
(* Program constants.                                                      *)
(***************************************************************************)
\* update_image_content: image_data.len() > 50
MinImageLen == 50
\* stands for usize::MAX, the value 0 - 1 wraps to: no Vec is that long
UsizeMax == 2147483647

TEXT == "TEXT"
IMAGE == "IMAGE"
ClipboardItemType == {TEXT, IMAGE}

(***************************************************************************)
(* Byte vectors and content-addressed names.                               *)
(***************************************************************************)
\* a vector of n bytes, each of value v; the empty vector has no fill
Bytes(n, v) == [len |-> n, fill |-> IF n = 0 THEN 0 ELSE v]

NoBytes == Bytes(0, 0)

\* the helper outputs that are explored: nothing, a payload of exactly the
\* threshold length, and two different payloads one byte above it
Img0 == NoBytes
ImgSmall == Bytes(MinImageLen, 1)
ImgA == Bytes(MinImageLen + 1, 1)
ImgB == Bytes(MinImageLen + 1, 2)
Images == {Img0, ImgSmall, ImgA, ImgB}

\* Sha256 digest in lower-case hex: a deterministic function of the bytes,
\* injective on the vectors above (no collision is assumed)
Sha256Hex(b) == "sha" \o ToString(b.len) \o "x" \o ToString(b.fill)

\* format!("{:x}.png", result)
ImageName(b) == Sha256Hex(b) \o ".png"

\* the clipboard texts that are explored; one of them spells the file name
\* that is derived for ImgA
Texts == {"", "a", "b", ImageName(ImgA)}

(***************************************************************************)
(* ClipboardHistory                                                        *)
(***************************************************************************)
\* ClipboardHistory::new
NewHistory == [items |-> <<>>, image_counter |-> 0, text_counter |-> 0]

\* add_item pushing to the front of the Vec
add_item_front(h, item, item_type, now) ==
    [items |-> <<[time |-> now, item_type |-> item_type, data |-> item]>> \o h.items,
     image_counter |-> IF item_type = IMAGE THEN h.image_counter + 1 ELSE h.image_counter,
     text_counter |-> IF item_type = TEXT THEN h.text_counter + 1 ELSE h.text_counter]

\* add_item counting every item as text
add_item_miscount(h, item, item_type, now) ==
    [items |-> Append(h.items, [time |-> now, item_type |-> item_type, data |-> item]),
     image_counter |-> h.image_counter,
     text_counter |-> h.text_counter + 1]

\* ClipboardHistory::add_item; now is the value of SystemTime::now()
add_item(h, item, item_type, now) ==
    [items |-> Append(h.items, [time |-> now, item_type |-> item_type, data |-> item]),
     image_counter |-> IF item_type = IMAGE THEN h.image_counter + 1 ELSE h.image_counter,
     text_counter |-> IF item_type = TEXT THEN h.text_counter + 1 ELSE h.text_counter]

\* ClipboardHistory::get_item: Vec::get, <<>> is None and <<item>> is Some(item)
get_item(h, index) ==
    IF index >= 0 /\ index < Len(h.items) THEN <<h.items[index + 1]>> ELSE <<>>

\* ClipboardHistory::get_counter
get_counter(h, item_type) ==
    IF item_type = TEXT THEN h.text_counter ELSE h.image_counter

(***************************************************************************)
(* serde_json.  The document is a sequence of lexemes, each a string: a    *)
(* run of fixed text, a number literal, a string literal or white space.   *)
(***************************************************************************)
\* a number literal
Num(n) == ToString(n)

\* a string literal; none of the strings explored needs an escape
Quote(s) == "\"" \o s \o "\""

\* white space between lexemes
Space == " "

\* #[derive(Serialize)] for ClipboardItem: fields in declaration order, the
\* unit variants of ClipboardItemType as their names
ItemTokens(it) ==
    << "{\"time\":", Num(it.time), ",\"item_type\":", Quote(it.item_type),
       ",\"data\":", Quote(it.data), "}" >>

RECURSIVE ItemsTokens(_)
ItemsTokens(its) ==
    IF Len(its) = 0 THEN <<>>
    ELSE IF Len(its) = 1 THEN ItemTokens(its[1])
    ELSE ItemTokens(its[1]) \o <<",">> \o ItemsTokens(Tail(its))

\* to_string writing text_counter into both counter fields
to_string_counters(h) ==
    <<"{\"items\":[">> \o ItemsTokens(h.items) \o
    << "],\"image_counter\":", Num(h.text_counter),
       ",\"text_counter\":", Num(h.text_counter), "}" >>

\* serde_json::to_string(&self.history): compact, fields in declaration order
to_string(h) ==
    <<"{\"items\":[">> \o ItemsTokens(h.items) \o
    << "],\"image_counter\":", Num(h.image_counter),
       ",\"text_counter\":", Num(h.text_counter), "}" >>

\* the literals a document of the model can hold
NumLiterals == 0..(MaxItems + 1)
StrLiterals == Texts \cup {ImageName(b) : b \in Images} \cup ClipboardItemType

\* the values of a number literal and of a string literal: a set with the
\* value, empty when the lexeme is no such literal
NumTable == [n \in NumLiterals |-> Num(n)]
StrTable == [x \in StrLiterals |-> Quote(x)]
ParseNum(tok) == {n \in NumLiterals : NumTable[n] = tok}
ParseStr(tok) == {x \in StrLiterals : StrTable[x] = tok}

Only(set) == CHOOSE x \in set : TRUE

\* lexemes of an empty history, and of each further item with its comma
EmptyDocLen == Len(to_string(NewHistory))
ItemLen == Len(ItemTokens([time |-> 0, item_type |-> TEXT, data |-> ""])) + 1

\* serde_json::from_str::<ClipboardHistory>: white space is skipped, the
\* fields are read from their places, and anything that is not one complete
\* document of that shape (a wrong lexeme, a missing field, an unknown
\* variant, trailing characters) is an error
from_str(contents) ==
    LET t == SelectSeq(contents, LAMBDA tok : tok # Space)
        n == IF Len(t) <= EmptyDocLen THEN 0 ELSE (Len(t) - EmptyDocLen + 1) \div ItemLen
        fits == Len(t) = EmptyDocLen + (IF n = 0 THEN 0 ELSE n * ItemLen - 1)
        at(i) == 1 + (i - 1) * ItemLen
        tl == Len(t) - EmptyDocLen + 1
        literals ==
            /\ \A i \in 1..n : /\ ParseNum(t[at(i) + 2]) # {}
                               /\ ParseStr(t[at(i) + 4]) \cap ClipboardItemType # {}
                               /\ ParseStr(t[at(i) + 6]) # {}
            /\ ParseNum(t[tl + 2]) # {}
            /\ ParseNum(t[tl + 4]) # {}
        h == [items |-> [i \in 1..n |->
                           [time |-> Only(ParseNum(t[at(i) + 2])),
                            item_type |-> Only(ParseStr(t[at(i) + 4])),
                            data |-> Only(ParseStr(t[at(i) + 6]))]],
              image_counter |-> Only(ParseNum(t[tl + 2])),
              text_counter |-> Only(ParseNum(t[tl + 4]))]
        failed == [ok |-> FALSE, value |-> NewHistory]
    IN  IF ~fits THEN failed
        ELSE IF ~literals THEN failed
        ELSE IF to_string(h) # t THEN failed
        ELSE [ok |-> TRUE, value |-> h]

(***************************************************************************)
(* The files of the working directory.                                     *)
(***************************************************************************)
NoFile == [exists |-> FALSE, contents |-> <<>>]

\* OpenOptions::new().write(true).create(true) followed by write_all: the
\* file is created when missing, is not truncated, and the bytes are written
\* from offset 0 over what the file holds
WriteOver(f, bytes) ==
    [exists |-> TRUE,
     contents |-> bytes \o SubSeq(f.contents, Len(bytes) + 1, Len(f.contents))]

\* std::path::Path::new(&image_name).exists()
BlobExists(bs, name) == \E b \in bs : b.name = name

\* std::fs::read(&item.data): <<>> is an error and <<bytes>> the contents
ReadBlob(bs, name) ==
    IF BlobExists(bs, name) THEN <<(CHOOSE b \in bs : b.name = name).data>> ELSE <<>>

(***************************************************************************)
(* ClipboardManager: pure parts                                            *)
(***************************************************************************)
RECURSIVE LastOfType(_, _)
\* items.iter().rev().find(|x| x.item_type == ty).map_or_else("", data)
LastOfType(its, ty) ==
    IF Len(its) = 0 THEN ""
    ELSE IF its[Len(its)].item_type = ty THEN its[Len(its)].data
    ELSE LastOfType(SubSeq(its, 1, Len(its) - 1), ty)

\* last_clipboard_text without .rev(): the first Text item
last_clipboard_text_first(h) ==
    LET texts == SelectSeq(h.items, LAMBDA it : it.item_type = TEXT)
    IN  IF Len(texts) = 0 THEN "" ELSE texts[1].data

last_clipboard_text(h) == LastOfType(h.items, TEXT)

last_clipboard_image(h) == LastOfType(h.items, IMAGE)

\* history.items.iter().find(|x| x.data == image_name).is_some()
NameInHistory(h, image_name) ==
    \E i \in 1..Len(h.items) : h.items[i].data = image_name

\* get_history as printed by main: "<i + 1>: <data> <item_type>" per item
get_history(h) ==
    [i \in 1..Len(h.items) |-> <<i, h.items[i].data, h.items[i].item_type>>]

\* ClipboardManager::save_history; the open has succeeded
save_history(h, f) == WriteOver(f, to_string(h))

\* save_text without the check for the empty text
save_text_unchecked(h, f, text, now, io) ==
    LET h2 == add_item(h, text, TEXT, now)
    IN  IF io = "hist_fail"
        THEN [history |-> h2, file |-> f, res |-> "panic_persist"]
        ELSE [history |-> h2, file |-> save_history(h2, f), res |-> "appended"]

\* ClipboardManager::save_text; io is what the file system does to the write
save_text(h, f, text, now, io) ==
    IF Len(text) < 1 THEN [history |-> h, file |-> f, res |-> "empty"]
    ELSE LET h2 == add_item(h, text, TEXT, now)
         IN  IF io = "hist_fail"
             THEN [history |-> h2, file |-> f, res |-> "panic_persist"]
             ELSE [history |-> h2, file |-> save_history(h2, f), res |-> "appended"]

\* update_clipboard_content that compares with the last item of any type
update_clipboard_content_last_item(h, f, read, now, io) ==
    IF read.kind = "ctx_fail" THEN [history |-> h, file |-> f, res |-> "panic_ctx"]
    ELSE IF read.kind = "err" THEN [history |-> h, file |-> f, res |-> "read_error"]
    ELSE IF read.text # (IF h.items = <<>> THEN "" ELSE h.items[Len(h.items)].data)
    THEN save_text(h, f, read.text, now, io)
    ELSE [history |-> h, file |-> f, res |-> "same"]

\* update_clipboard_content that unwraps the result of get_contents
update_clipboard_content_unwrap(h, f, read, now, io) ==
    IF read.kind = "ctx_fail" THEN [history |-> h, file |-> f, res |-> "panic_ctx"]
    ELSE IF read.kind = "err" THEN [history |-> h, file |-> f, res |-> "panic_ctx"]
    ELSE IF read.text # last_clipboard_text(h) THEN save_text(h, f, read.text, now, io)
    ELSE [history |-> h, file |-> f, res |-> "same"]

\* ClipboardManager::update_clipboard_content; read is what the clipboard
\* provider answers
update_clipboard_content(h, f, read, now, io) ==
    IF read.kind = "ctx_fail" THEN [history |-> h, file |-> f, res |-> "panic_ctx"]
    ELSE IF read.kind = "err" THEN [history |-> h, file |-> f, res |-> "read_error"]
    ELSE IF read.text # last_clipboard_text(h) THEN save_text(h, f, read.text, now, io)
    ELSE [history |-> h, file |-> f, res |-> "same"]

\* save_image that appends and persists the item before it writes the blob
save_image_item_first(h, f, bs, image_data, image_name, now, io) ==
    IF BlobExists(bs, image_name)
    THEN [history |-> h, file |-> f, blobs |-> bs, res |-> "exists"]
    ELSE LET h2 == add_item(h, image_name, IMAGE, now)
         IN  IF io = "hist_fail"
             THEN [history |-> h2, file |-> f, blobs |-> bs, res |-> "panic_persist"]
             ELSE IF io = "create_fail"
             THEN [history |-> h2, file |-> save_history(h2, f), blobs |-> bs,
                   res |-> "panic_create"]
             ELSE IF io = "blob_fail"
             THEN [history |-> h2, file |-> save_history(h2, f),
                   blobs |-> bs \cup {[name |-> image_name, data |-> NoBytes]},
                   res |-> "panic_blob"]
             ELSE [history |-> h2, file |-> save_history(h2, f),
                   blobs |-> bs \cup {[name |-> image_name, data |-> image_data]},
                   res |-> "appended"]

\* ClipboardManager::save_image
save_image(h, f, bs, image_data, image_name, now, io) ==
    IF BlobExists(bs, image_name)
    THEN [history |-> h, file |-> f, blobs |-> bs, res |-> "exists"]
    ELSE IF io = "create_fail"
    THEN [history |-> h, file |-> f, blobs |-> bs, res |-> "panic_create"]
    ELSE IF io = "blob_fail"
    THEN [history |-> h, file |-> f,
          blobs |-> bs \cup {[name |-> image_name, data |-> NoBytes]},
          res |-> "panic_blob"]
    ELSE LET bs2 == bs \cup {[name |-> image_name, data |-> image_data]}
             h2 == add_item(h, image_name, IMAGE, now)
         IN  IF io = "hist_fail"
             THEN [history |-> h2, file |-> f, blobs |-> bs2, res |-> "panic_persist"]
             ELSE [history |-> h2, file |-> save_history(h2, f), blobs |-> bs2,
                   res |-> "appended"]

\* update_image_content that probes the helper again after a failure
update_image_content_reprobe(h, f, bs, avail, output, now, io) ==
    LET same(r, a, inv) ==
            [history |-> h, file |-> f, blobs |-> bs, xclip_available |-> a,
             invoked |-> inv, res |-> r]
    IN  IF output.kind = "err" THEN same("helper_failed", FALSE, TRUE)
        ELSE LET image_data == output.stdout
             IN  IF ~(image_data.len # 0 /\ image_data.len > MinImageLen)
                 THEN same("small", TRUE, TRUE)
                 ELSE LET image_name == ImageName(image_data)
                      IN  IF NameInHistory(h, image_name)
                          THEN same("dup", TRUE, TRUE)
                          ELSE LET s == save_image(h, f, bs, image_data, image_name, now, io)
                               IN  [history |-> s.history, file |-> s.file,
                                    blobs |-> s.blobs, xclip_available |-> TRUE,
                                    invoked |-> TRUE, res |-> s.res]

\* update_image_content with the threshold off by one: len() >= 50
update_image_content_ge(h, f, bs, avail, output, now, io) ==
    LET same(r, a, inv) ==
            [history |-> h, file |-> f, blobs |-> bs, xclip_available |-> a,
             invoked |-> inv, res |-> r]
    IN  IF ~avail THEN same("latched", avail, FALSE)
        ELSE IF output.kind = "err" THEN same("helper_failed", FALSE, TRUE)
        ELSE LET image_data == output.stdout
             IN  IF ~(image_data.len # 0 /\ image_data.len >= MinImageLen)
                 THEN same("small", avail, TRUE)
                 ELSE LET image_name == ImageName(image_data)
                      IN  IF NameInHistory(h, image_name)
                          THEN same("dup", avail, TRUE)
                          ELSE LET s == save_image(h, f, bs, image_data, image_name, now, io)
                               IN  [history |-> s.history, file |-> s.file,
                                    blobs |-> s.blobs, xclip_available |-> avail,
                                    invoked |-> TRUE, res |-> s.res]

\* ClipboardManager::update_image_content; output is what Command::output()
\* returns for xclip
update_image_content(h, f, bs, avail, output, now, io) ==
    LET same(r, a, inv) ==
            [history |-> h, file |-> f, blobs |-> bs, xclip_available |-> a,
             invoked |-> inv, res |-> r]
    IN  IF ~avail THEN same("latched", avail, FALSE)
        ELSE IF output.kind = "err" THEN same("helper_failed", FALSE, TRUE)
        ELSE LET image_data == output.stdout
             IN  IF ~(image_data.len # 0 /\ image_data.len > MinImageLen)
                 THEN same("small", avail, TRUE)
                 ELSE LET image_name == ImageName(image_data)
                      IN  IF NameInHistory(h, image_name)
                          THEN same("dup", avail, TRUE)
                          ELSE LET s == save_image(h, f, bs, image_data, image_name, now, io)
                               IN  [history |-> s.history, file |-> s.file,
                                    blobs |-> s.blobs, xclip_available |-> avail,
                                    invoked |-> TRUE, res |-> s.res]

\* item_number used as the index, without the - 1
IndexOf_zero_based(item_number, overflow_checks) == <<item_number>>

\* item_number - 1 on usize: with overflow checks (debug profile) 0 - 1
\* panics, without them (release profile) it wraps to usize::MAX; <<>> is
\* the panic
IndexOf(item_number, overflow_checks) ==
    IF item_number >= 1 THEN <<item_number - 1>>
    ELSE IF overflow_checks THEN <<>>
    ELSE <<UsizeMax>>

\* ClipboardManager::set_clipboard_text; env is what the clipboard provider
\* and the xclip helper do
set_clipboard_text(h, bs, item_number, overflow_checks, env) ==
    LET r(res, t, b) == [res |-> res, pushed_text |-> t, pushed_bytes |-> b]
    IN  IF env = "ctx_fail" THEN r("panic_ctx", <<>>, <<>>)
        ELSE IF IndexOf(item_number, overflow_checks) = <<>>
        THEN r("panic_overflow", <<>>, <<>>)
        ELSE LET found == get_item(h, IndexOf(item_number, overflow_checks)[1])
             IN  IF found = <<>> THEN r("not_found", <<>>, <<>>)
                 ELSE IF env = "set_fail" THEN r("panic_set", <<>>, <<>>)
                 ELSE IF found[1].item_type = TEXT
                 THEN r("set", <<found[1].data>>, <<>>)
                 ELSE IF ReadBlob(bs, found[1].data) = <<>>
                 THEN r("panic_read", <<>>, <<>>)
                 ELSE r("set", <<>>, ReadBlob(bs, found[1].data))

(***************************************************************************)
(* Ghost state: the last call (last) and the state it started from (prev). *)
(* last holds the call (op), how it ended (res), what it was given (text   *)
(* read from the clipboard, bytes and helper_ok from the helper, k the     *)
(* item number), whether it ran the helper (invoked), what it printed      *)
(* (out), what it put on the clipboard (pushed_text, pushed_bytes), and in *)
(* before how the call right before it ended when that call matters to    *)
(* this one: the same sample repeated, or the append a restart follows.    *)
(***************************************************************************)
NoCall ==
    [op |-> "none", res |-> "none", before |-> "", text |-> "", bytes |-> NoBytes,
     helper_ok |-> FALSE, k |-> 0, invoked |-> FALSE, out |-> <<>>, read |-> "",
     oneshot |-> "",
     pushed_text |-> <<>>, pushed_bytes |-> <<>>]

Snapshot ==
    [history |-> history, xclip_available |-> xclip_available,
     file |-> file, blobs |-> blobs]

Init ==
    /\ history = NewHistory
    /\ xclip_available = TRUE
    /\ status = "none"
    /\ file = NoFile
    /\ blobs = {}
    /\ last = NoCall
    /\ prev = [history |-> NewHistory, xclip_available |-> TRUE,
               file |-> NoFile, blobs |-> {}]

(***************************************************************************)
(* What the environment can answer.                                        *)
(***************************************************************************)
\* ctx.get_contents(), after ClipboardProvider::new()
TextReads ==
    {[kind |-> "ctx_fail", text |-> ""], [kind |-> "err", text |-> ""]}
    \cup {[kind |-> "ok", text |-> t] : t \in Texts}

\* Command::new("xclip")...output()
HelperOutputs ==
    {[kind |-> "err", stdout |-> NoBytes]}
    \cup {[kind |-> "ok", stdout |-> b] : b \in Images}

\* SystemTime::now() as nanoseconds since the epoch: every reading is later
\* than the readings the history holds (no code reads the time back, and a
\* clock that is set back is not explored)
Now(h) == Len(h.items) + 1

\* restore is called with the numbers of the items, with 0 and with numbers
\* past the end
ItemNumbers == 0..(MaxItems + 1)

\* what main does with the manager: the sampling loop of the daemon
\* subcommand, the listing of the history subcommand, or the restore of the
\* item argument
Modes == {"daemon", "history", "restore"}

Panics ==
    {"panic_ctx", "panic_persist", "panic_create", "panic_blob", "panic_overflow",
     "panic_set", "panic_read", "panic_parse"}

\* a panic ends the thread that called.  A one-shot subcommand runs on the
\* main thread, so the process aborts: "panicked".  The daemon samples on a
\* thread it spawned while its main thread sleeps in a loop of its own, so
\* the process stays without a sampling loop: "stalled".
StatusAfter(res, otherwise) ==
    IF res \notin Panics THEN otherwise
    ELSE IF otherwise = "daemon" THEN "stalled" ELSE "panicked"

\* an input that is consulted only on some paths is drawn only for those
Drawn(consulted, values, unused) == IF consulted THEN values ELSE {unused}

(***************************************************************************)
(* Operations.  status is "none" before the first process, the subcommand  *)
(* the process runs while it runs, "exited" after a one-shot subcommand    *)
(* returned, "panicked" after a panic of the main thread and "stalled"     *)
(* after a panic of the sampling thread of the daemon.                     *)
(***************************************************************************)
\* a process starts: main calls ClipboardManager::new(history_file_path)
\* and then dispatches on the subcommand
New ==
    LET loaded == IF file.exists THEN from_str(file.contents)
                  ELSE [ok |-> TRUE, value |-> NewHistory]
    IN  \E mode \in Modes :
          /\ history' = loaded.value
          /\ xclip_available' = TRUE
          /\ status' = IF loaded.ok THEN mode ELSE "panicked"
          /\ last' = [NoCall EXCEPT
                        !.op = "new",
                        !.res = IF loaded.ok THEN "loaded" ELSE "panic_parse",
                        !.before = IF /\ last.op \in {"sample_text", "sample_image"}
                                      /\ last.res = "appended"
                                   THEN last.res ELSE ""]
          /\ prev' = Snapshot
          /\ UNCHANGED <<file, blobs>>

\* manager.update_clipboard_content()
SampleText ==
    /\ status = "daemon"
    /\ \E read \in TextReads :
       \E io \in Drawn(read.text # "", {"ok", "hist_fail"}, "ok") :
         LET r == update_clipboard_content(history, file, read, Now(history), io)
         IN  /\ Len(r.history.items) <= MaxItems
             /\ history' = r.history
             /\ file' = r.file
             /\ status' = StatusAfter(r.res, status)
             /\ last' = [NoCall EXCEPT
                           !.op = "sample_text", !.res = r.res, !.text = read.text,
                           !.read = read.kind,
                           !.before = IF /\ last.op = "sample_text"
                                         /\ last.res \in {"same", "empty", "appended"}
                                         /\ read.kind = "ok"
                                         /\ last.text = read.text
                                      THEN last.res ELSE ""]
             /\ prev' = Snapshot
             /\ UNCHANGED <<xclip_available, blobs>>

\* manager.update_image_content()
SampleImage ==
    /\ status = "daemon"
    /\ \E output \in HelperOutputs :
       \E io \in Drawn(output.stdout # NoBytes,
                       {"ok", "create_fail", "blob_fail", "hist_fail"}, "ok") :
         LET r == update_image_content(history, file, blobs, xclip_available,
                                       output, Now(history), io)
         IN  /\ Len(r.history.items) <= MaxItems
             /\ history' = r.history
             /\ file' = r.file
             /\ blobs' = r.blobs
             /\ xclip_available' = r.xclip_available
             /\ status' = StatusAfter(r.res, status)
             /\ last' = [NoCall EXCEPT
                           !.op = "sample_image", !.res = r.res,
                           !.bytes = output.stdout, !.invoked = r.invoked,
                           !.helper_ok = output.kind = "ok",
                           !.before = IF /\ last.op = "sample_image"
                                         /\ last.res \in {"dup", "exists", "appended"}
                                         /\ output.kind = "ok"
                                         /\ last.bytes = output.stdout
                                      THEN last.res ELSE ""]
             /\ prev' = Snapshot

\* manager.set_clipboard_text(item_number), after which main returns
Restore ==
    /\ status = "restore"
    /\ \E item_number \in ItemNumbers :
       \E overflow_checks \in Drawn(item_number = 0, BOOLEAN, TRUE),
          env \in {"ok", "ctx_fail", "set_fail"} :
         LET r == set_clipboard_text(history, blobs, item_number, overflow_checks, env)
         IN  /\ status' = StatusAfter(r.res, "exited")
             /\ last' = [NoCall EXCEPT
                           !.op = "restore", !.res = r.res, !.k = item_number,
                           !.pushed_text = r.pushed_text,
                           !.pushed_bytes = r.pushed_bytes]
             /\ prev' = Snapshot
             /\ UNCHANGED <<history, xclip_available, file, blobs>>

\* manager.get_history(), printed by main, after which main returns
List ==
    /\ status = "history"
    /\ status' = "exited"
    /\ last' = [NoCall EXCEPT !.op = "list", !.res = "listed",
                              !.out = get_history(history)]
    /\ prev' = Snapshot
    /\ UNCHANGED <<history, xclip_available, file, blobs>>

Next == New \/ SampleText \/ SampleImage \/ Restore \/ List

Spec == Init /\ [][Next]_vars

TypeOK ==
    /\ status \in Modes \cup {"none", "exited", "panicked", "stalled", "writing"}
    /\ xclip_available \in BOOLEAN
    /\ Len(history.items) <= MaxItems

(***************************************************************************)
(* The daemon alone: one process, whose sampling thread runs               *)
(* update_clipboard_content, update_image_content and a sleep in a loop.   *)
(* The position in the loop is the operation that returned last.  The      *)
(* thread is scheduled again and again and every call returns or panics,   *)
(* so each step of the loop is taken once it is the next one.              *)
(***************************************************************************)
LoopStart == status = "none" /\ New

LoopText == last.op \in {"new", "sample_image"} /\ SampleText

LoopImage == last.op = "sample_text" /\ SampleImage

NextLoop == LoopStart \/ LoopText \/ LoopImage

SpecLoop ==
    Init /\ [][NextLoop]_vars /\ WF_vars(LoopText) /\ WF_vars(LoopImage)

(***************************************************************************)
(* save_history step by step.  file.write_all writes the serialization     *)
(* from offset 0 with one or more write calls; between two of them the     *)
(* file holds the tokens written so far followed by what it held beyond    *)
(* them.  status is "writing" while the sampling thread is inside          *)
(* write_all.  Another process can start meanwhile: after the daemon was   *)
(* killed (New), or next to it for a one-shot subcommand (OneShotLoad).    *)
(***************************************************************************)
\* the file after write_all wrote the first k tokens of the history
PartlyWritten(h, f, k) == WriteOver(f, SubSeq(to_string(h), 1, k))

\* update_clipboard_content up to the middle of the write_all of save_history
TornText ==
    /\ status = "daemon"
    /\ last.op \in {"new", "sample_image"}
    /\ \E read \in TextReads :
         LET r == update_clipboard_content(history, file, read, Now(history), "ok")
         IN  /\ r.res = "appended"
             /\ Len(r.history.items) <= MaxItems
             /\ \E k \in 0..(Len(to_string(r.history)) - 1) :
                  file' = PartlyWritten(r.history, file, k)
             /\ history' = r.history
             /\ status' = "writing"
             /\ last' = [NoCall EXCEPT
                           !.op = "sample_text", !.res = "writing",
                           !.text = read.text, !.read = read.kind]
             /\ prev' = Snapshot
             /\ UNCHANGED <<xclip_available, blobs>>

\* update_image_content up to the middle of the write_all of save_history
TornImage ==
    /\ status = "daemon"
    /\ last.op = "sample_text"
    /\ \E output \in HelperOutputs :
         LET r == update_image_content(history, file, blobs, xclip_available,
                                       output, Now(history), "ok")
         IN  /\ r.res = "appended"
             /\ Len(r.history.items) <= MaxItems
             /\ \E k \in 0..(Len(to_string(r.history)) - 1) :
                  file' = PartlyWritten(r.history, file, k)
             /\ history' = r.history
             /\ blobs' = r.blobs
             /\ status' = "writing"
             /\ last' = [NoCall EXCEPT
                           !.op = "sample_image", !.res = "writing",
                           !.bytes = output.stdout, !.invoked = r.invoked,
                           !.helper_ok = output.kind = "ok"]
             /\ prev' = Snapshot
             /\ UNCHANGED xclip_available

\* write_all writes the rest and the sampling operation returns
WriteRest ==
    /\ status = "writing"
    /\ file' = save_history(history, file)
    /\ status' = "daemon"
    /\ last' = [last EXCEPT !.res = "appended", !.oneshot = "", !.out = <<>>]
    /\ UNCHANGED <<history, xclip_available, blobs, prev>>

\* write_all fails after what it wrote (the disk is full):
\* expect("Failed to write to the file") panics
WriteFails ==
    /\ status = "writing"
    /\ status' = StatusAfter("panic_persist", "daemon")
    /\ last' = [last EXCEPT !.res = "panic_persist", !.oneshot = "", !.out = <<>>]
    /\ UNCHANGED <<history, xclip_available, file, blobs, prev>>

\* the process of a one-shot subcommand constructs its manager next to the
\* daemon that is inside write_all; it prints what it loaded or panics
OneShotLoad ==
    /\ status = "writing"
    /\ last.oneshot = ""
    /\ LET loaded == from_str(file.contents)
       IN  last' = [last EXCEPT
                      !.oneshot = IF loaded.ok THEN "loaded" ELSE "panic_parse",
                      !.out = IF loaded.ok THEN get_history(loaded.value) ELSE <<>>]
    /\ UNCHANGED <<history, xclip_available, status, file, blobs, prev>>

NextTorn ==
    \/ New \/ LoopText \/ LoopImage
    \/ TornText \/ TornImage \/ WriteRest \/ WriteFails \/ OneShotLoad

SpecTorn == Init /\ [][NextTorn]_vars

(***************************************************************************)
(* A history file that holds a history and cannot be opened for reading    *)
(* (its mode denies it, or the process is out of descriptors).             *)
(* ClipboardManager::new matches File::open on Ok(file) and Err(_): every  *)
(* error takes the branch of the missing file.                             *)
(***************************************************************************)
NewUnreadable ==
    /\ file.exists
    /\ from_str(file.contents).ok
    /\ \E mode \in Modes :
         /\ history' = NewHistory
         /\ xclip_available' = TRUE
         /\ status' = mode
         /\ last' = [NoCall EXCEPT !.op = "new", !.res = "open_error"]
         /\ prev' = Snapshot
         /\ UNCHANGED <<file, blobs>>

\* processes start one after the other; a daemon runs its loop
NextUnreadable == New \/ NewUnreadable \/ LoopText \/ LoopImage

SpecUnreadable == Init /\ [][NextUnreadable]_vars

(***************************************************************************)
(* A history file that was reformatted between two runs.  serde_json       *)
(* accepts white space between the tokens, so ClipboardManager::new loads  *)
(* such a file; it is longer than what to_string writes for the same       *)
(* history.                                                                *)
(***************************************************************************)
RECURSIVE Pretty(_)
\* the document with white space after every token
Pretty(t) == IF t = <<>> THEN <<>> ELSE <<Head(t), Space>> \o Pretty(Tail(t))

\* the history an earlier run left: one Text item
FormattedHistory == add_item(NewHistory, "a", TEXT, Now(NewHistory))

FormattedFile == [exists |-> TRUE, contents |-> Pretty(to_string(FormattedHistory))]

InitFormatted ==
    /\ history = NewHistory
    /\ xclip_available = TRUE
    /\ status = "none"
    /\ file = FormattedFile
    /\ blobs = {}
    /\ last = NoCall
    /\ prev = [history |-> NewHistory, xclip_available |-> TRUE,
               file |-> FormattedFile, blobs |-> {}]

SpecFormatted == InitFormatted /\ [][Next]_vars

(***************************************************************************)
(* Properties.                                                             *)
(***************************************************************************)
\* the positions of the items of type ty
OfType(h, ty) == {i \in 1..Len(h.items) : h.items[i].item_type = ty}

\* the positions of the Image items that name the blob of the bytes b
ImagesOf(h, b) == {i \in OfType(h, IMAGE) : h.items[i].data = ImageName(b)}

\* the call left the manager, the history file and the blobs as they were
Untouched ==
    /\ history = prev.history
    /\ xclip_available = prev.xclip_available
    /\ file = prev.file
    /\ blobs = prev.blobs

IsPrefix(a, b) == Len(a) <= Len(b) /\ SubSeq(b, 1, Len(a)) = a

\* C1: a sample_text that reads the text the sample_text right before it
\* read leaves the items, the counters and the history file as they were, so
\* the two calls append at most one item.
C1_SecondSampleIsNoOp ==
    (last.op = "sample_text" /\ last.before # "") =>
        /\ history = prev.history
        /\ file = prev.file
        /\ last.res = "same" \/ last.text = ""

\* C1 witness: the first call appended the text, the second call read it
\* again.
C1_Witness ==
    /\ last.op = "sample_text"
    /\ last.before = "appended"
    /\ last.res = "same"
    /\ Len(history.items) >= 2
    /\ history.items[Len(history.items)].data = last.text

\* C2 as claimed: after an image of more than 50 bytes was captured twice,
\* the history holds exactly one Image item for it, and no two Image items
\* name the same file.
C2_ExactlyOneImage ==
    /\ (/\ last.op = "sample_image"
        /\ last.before # ""
        /\ last.res \in {"dup", "exists", "appended"}
        /\ last.bytes.len > MinImageLen)
       => Cardinality(ImagesOf(history, last.bytes)) = 1
    /\ \A i, j \in OfType(history, IMAGE) :
         history.items[i].data = history.items[j].data => i = j

\* C3: no Text item holds the empty string, and a sample_text that reads the
\* empty string leaves the history and the history file as they were.
C3_NoEmptyText ==
    /\ \A i \in OfType(history, TEXT) : history.items[i].data # ""
    /\ (last.op = "sample_text" /\ last.text = "") =>
          history = prev.history /\ file = prev.file

\* C3 witness: the empty string was read while the latest Text item holds a
\* text, so that save_text was reached.
C3_Witness ==
    /\ last.op = "sample_text"
    /\ last.res = "empty"
    /\ last_clipboard_text(history) # ""

\* C4: after save_history wrote the history, the contents of the file parse
\* to the same items and counters, and the manager of a process that starts
\* next holds them.
C4_RoundTrip ==
    /\ (last.op \in {"sample_text", "sample_image"} /\ last.res = "appended") =>
          from_str(file.contents) = [ok |-> TRUE, value |-> history]
    /\ (last.op = "new" /\ last.before = "appended") =>
          last.res = "loaded" /\ history = prev.history

\* C4 witness: a process started right after an append and loaded a history
\* of both item types.
C4_Witness ==
    /\ last.op = "new"
    /\ last.before = "appended"
    /\ Len(history.items) = MaxItems
    /\ history.text_counter # history.image_counter
    /\ history.image_counter >= 1

\* C5: the helper is available when a process starts; only a failed helper
\* invocation makes it unavailable; within the process it stays unavailable,
\* and every sample_image then neither runs the helper nor changes anything,
\* whatever the helper would answer; sample_text still appends.
C5_OneWayLatch ==
    /\ last.op \in {"none", "new"} => xclip_available
    /\ (prev.xclip_available /\ ~xclip_available) =>
          last.op = "sample_image" /\ last.res = "helper_failed"
    /\ (last.op = "sample_image" /\ last.invoked /\ ~last.helper_ok) =>
          ~xclip_available /\ last.res = "helper_failed"
    /\ (last.op # "new" /\ ~prev.xclip_available) => ~xclip_available
    /\ (last.op = "sample_image" /\ ~prev.xclip_available) =>
          last.res = "latched" /\ ~last.invoked /\ Untouched
    /\ (/\ last.op = "sample_text"
        /\ ~prev.xclip_available
        /\ last.res \in {"same", "empty", "appended"}
        /\ last.text # ""
        /\ last.text # last_clipboard_text(prev.history))
       => last.res = "appended"

\* C5 witness: the helper had failed, and a later sample_image for which the
\* helper would have returned an image did nothing.
C5_Witness ==
    /\ last.op = "sample_image"
    /\ last.res = "latched"
    /\ last.helper_ok
    /\ last.bytes = ImgA
    /\ ImagesOf(history, ImgA) = {}

\* C6: text_counter is the number of Text items and image_counter the number
\* of Image items, in the manager and in what the history file parses to.
C6_Counters ==
    /\ history.text_counter = Cardinality(OfType(history, TEXT))
    /\ history.image_counter = Cardinality(OfType(history, IMAGE))
    /\ (file.exists /\ from_str(file.contents).ok) =>
          LET h == from_str(file.contents).value
          IN  /\ h.text_counter = Cardinality(OfType(h, TEXT))
              /\ h.image_counter = Cardinality(OfType(h, IMAGE))

\* C6 witness: a history of both item types was loaded from the file.
C6_Witness ==
    /\ last.op = "new"
    /\ last.res = "loaded"
    /\ history.text_counter >= 1
    /\ history.image_counter >= 1

\* C7: restore changes neither the history nor the files; when the
\* clipboard provider and the helper accept the call, restore(k) with
\* 1 <= k <= N puts the k-th oldest item on the clipboard (the text of a Text
\* item, the bytes of the blob an Image item names), and restore(k) with
\* k > N reports not-found and puts nothing there.
C7_OneBased ==
    last.op = "restore" =>
        /\ Untouched
        /\ (last.res \notin {"panic_ctx", "panic_set"}
            /\ 1 <= last.k /\ last.k <= Len(history.items)) =>
              LET item == history.items[last.k]
              IN  /\ last.res = "set"
                  /\ item.item_type = TEXT =>
                        last.pushed_text = <<item.data>> /\ last.pushed_bytes = <<>>
                  /\ item.item_type = IMAGE =>
                        /\ last.pushed_text = <<>>
                        /\ Len(last.pushed_bytes) = 1
                        /\ ImageName(last.pushed_bytes[1]) = item.data
        /\ (last.res # "panic_ctx" /\ last.k > Len(history.items)) =>
              /\ last.res = "not_found"
              /\ last.pushed_text = <<>> /\ last.pushed_bytes = <<>>

\* C7 witness: restore(2) on a history of three different items put the
\* second one on the clipboard.
C7_Witness ==
    /\ last.op = "restore"
    /\ last.k = 2
    /\ last.res = "set"
    /\ Len(history.items) = 3
    /\ history.items[1].data # history.items[2].data
    /\ history.items[3].data # history.items[2].data
    /\ last.pushed_text = <<history.items[2].data>>

\* C8 as claimed: with a working clipboard provider, restore of an item
\* number that is out of range (0, or above the number of items) reports
\* not-found, puts nothing on the clipboard, changes nothing, and the
\* process exits normally.
C8_OutOfRangeNotFound ==
    (/\ last.op = "restore"
     /\ last.res # "panic_ctx"
     /\ (last.k = 0 \/ last.k > Len(history.items)))
    => /\ last.res = "not_found"
       /\ status = "exited"
       /\ last.pushed_text = <<>> /\ last.pushed_bytes = <<>>
       /\ Untouched

\* C9: across sample_text, sample_image, restore and list the items held
\* before the call are a prefix of the items held after it, and list prints
\* the items in that order, numbered from 1.
C9_AppendOnly ==
    /\ last.op \in {"sample_text", "sample_image", "restore", "list"} =>
          IsPrefix(prev.history.items, history.items)
    /\ last.op = "list" =>
          /\ Len(last.out) = Len(history.items)
          /\ \A i \in 1..Len(last.out) :
               last.out[i] = <<i, history.items[i].data, history.items[i].item_type>>

\* C9 witness: an item was appended to a history of two items.
C9_Witness ==
    /\ last.op \in {"sample_text", "sample_image"}
    /\ last.res = "appended"
    /\ Len(prev.history.items) = 2
    /\ Len(history.items) = 3

\* C10: a helper output of at most 50 bytes is not recorded: no item, no
\* blob, no write of the history file, and the helper stays available; an
\* output of 51 bytes passes the threshold, and when it is appended it is an
\* Image item that names its blob.
C10_SmallPayload ==
    /\ (/\ last.op = "sample_image"
        /\ last.invoked
        /\ last.helper_ok
        /\ last.bytes.len <= MinImageLen)
       => last.res = "small" /\ Untouched /\ xclip_available
    /\ (/\ last.op = "sample_image"
        /\ last.invoked
        /\ last.helper_ok
        /\ last.bytes.len = MinImageLen + 1)
       => /\ last.res # "small"
          /\ last.res = "appended" =>
                /\ Len(history.items) = Len(prev.history.items) + 1
                /\ history.items[Len(history.items)].item_type = IMAGE
                /\ history.items[Len(history.items)].data = ImageName(last.bytes)
                /\ BlobExists(blobs, ImageName(last.bytes))
    /\ \A i \in OfType(history, IMAGE), b \in Images :
         history.items[i].data = ImageName(b) => b.len > MinImageLen

\* C10 witness: the helper returned exactly 50 bytes to a manager that
\* already holds items, and nothing was recorded.
C10_Witness ==
    /\ last.op = "sample_image"
    /\ last.res = "small"
    /\ last.bytes.len = MinImageLen
    /\ Len(history.items) >= 1

\* C11 as claimed: at every operation boundary of the running daemon the
\* history file deserializes to exactly the history in memory (no file
\* stands for the empty history), so every append was flushed before the
\* operation returned.
C11_DiskAgreesWithMemory ==
    status = "daemon" =>
        IF file.exists
        THEN from_str(file.contents) = [ok |-> TRUE, value |-> history]
        ELSE history = NewHistory

\* C16 as claimed: after save_history returned, the file holds exactly the
\* serialization of the history in memory, whatever it held before.
C16_FullOverwrite ==
    (last.op \in {"sample_text", "sample_image"} /\ last.res = "appended") =>
        file.contents = to_string(history)

\* C12 as claimed: when save_history fails during a sampling operation of
\* the daemon, the process aborts; it does not stay alive without sampling.
C12_PersistFailureAborts ==
    (last.op \in {"sample_text", "sample_image"} /\ last.res = "panic_persist") =>
        status = "panicked"

\* the clipboard provider opened and get_contents answered Err
ReadFailed == last.op = "sample_text" /\ last.read = "err"

GotImage ==
    /\ last.op = "sample_image"
    /\ last.invoked
    /\ last.helper_ok
    /\ last.bytes.len > MinImageLen

\* C14 as claimed: a sample_image that got an image of more than 50 bytes
\* whose file name no item of the history holds appends an Image item for
\* it and persists, also when a file of that name is on disk already.
C14_UnreferencedImageAppended ==
    (/\ GotImage
     /\ ~(\E i \in 1..Len(prev.history.items) :
            prev.history.items[i].data = ImageName(last.bytes))
     /\ last.res \notin Panics)
    => /\ Len(history.items) = Len(prev.history.items) + 1
       /\ history.items[Len(history.items)].item_type = IMAGE
       /\ history.items[Len(history.items)].data = ImageName(last.bytes)
       /\ from_str(file.contents) = [ok |-> TRUE, value |-> history]

\* the data of the Text item at the highest position, "" without Text items
LatestText(h) ==
    IF OfType(h, TEXT) = {} THEN ""
    ELSE h.items[CHOOSE i \in OfType(h, TEXT) : \A j \in OfType(h, TEXT) : j <= i].data

\* C15: a sample_text that read the clipboard appends one Text item with the
\* text (and, unless the write fails, has written the new history to the file)
\* exactly when the text is non-empty and differs from the data of the most
\* recent Text item, whatever Image items follow that item and whatever
\* older Text items hold; otherwise it changes nothing.
C15_AppendsIffDiffers ==
    (last.op = "sample_text" /\ last.read = "ok") =>
        IF last.text # "" /\ last.text # LatestText(prev.history)
        THEN /\ last.res \in {"appended", "panic_persist"}
             /\ Len(history.items) = Len(prev.history.items) + 1
             /\ SubSeq(history.items, 1, Len(prev.history.items)) = prev.history.items
             /\ history.items[Len(history.items)].item_type = TEXT
             /\ history.items[Len(history.items)].data = last.text
             /\ last.res = "appended" =>
                   file.exists /\ IsPrefix(to_string(history), file.contents)
        ELSE /\ last.res \in {"same", "empty"}
             /\ history = prev.history
             /\ file = prev.file

\* C15 witness: the texts A, B, A were read in this order and the history
\* holds three Text items.
C15_Witness ==
    /\ last.op = "sample_text"
    /\ last.res = "appended"
    /\ Len(history.items) = 3
    /\ \A i \in 1..3 : history.items[i].item_type = TEXT
    /\ history.items[1].data = history.items[3].data
    /\ history.items[2].data # history.items[1].data

\* C19 as claimed: only Image items decide whether sample_image takes an
\* image for a duplicate: it returns as for a duplicate only when an Image
\* item of the history names the file of the image.
C19_TextBlindDedup ==
    (GotImage /\ last.res = "dup") => ImagesOf(prev.history, last.bytes) # {}

\* C17 as claimed: a manager that was constructed holds what the history
\* file holds, and the empty history only when there is no file.
C17_EmptyOnlyWithoutFile ==
    (last.op = "new" /\ status \in Modes) =>
        IF file.exists
        THEN from_str(file.contents) = [ok |-> TRUE, value |-> history]
        ELSE history = NewHistory

\* the blob file of the name holds all the bytes of the image it is named
\* after
CompleteBlob(name) ==
    \E b \in blobs : b.name = name /\ b.data # NoBytes /\ ImageName(b.data) = name

\* C18: every Image item of the history in memory, and of the history the
\* file deserializes to, names a blob file that was written completely,
\* also after a failure at any step of save_image, in the middle of
\* write_all, and in the process that starts after a kill.
C18_NoDanglingImage ==
    /\ \A i \in OfType(history, IMAGE) : CompleteBlob(history.items[i].data)
    /\ (file.exists /\ from_str(file.contents).ok) =>
          \A i \in OfType(from_str(file.contents).value, IMAGE) :
             CompleteBlob(from_str(file.contents).value.items[i].data)

\* C18 witness: a write of a blob failed half way, the next process
\* captured another image, and the image of the partial blob came again.
C18_Witness ==
    /\ last.op = "sample_image"
    /\ last.res = "exists"
    /\ \E b \in blobs : b.data = NoBytes /\ b.name = ImageName(last.bytes)
    /\ OfType(history, IMAGE) # {}
    /\ file.exists

\* C20 as claimed: a one-shot process that constructs its manager while the
\* daemon is inside save_history loads the history as it was before the
\* sampling operation or as it is after it.
C20_NoTornRead ==
    (status = "writing" /\ last.oneshot # "") =>
        /\ last.oneshot = "loaded"
        /\ from_str(file.contents).value \in {prev.history, history}

====
